---- MODULE Spec2Model ----
(***************************************************************************)
(* Model of the viscosity calculation backend (src/app.py).                *)
(*                                                                         *)
(* The program is a set of stateless request handlers.  One request is     *)
(* handled at a time: from "idle" a handler reads a payload and produces a *)
(* response ("done"), after which the response is delivered and everything *)
(* the request built is discarded (Reply).                                 *)
(* A second specification (Concurrent) serves requests on several threads  *)
(* at once, a loop pass at a time: threads[w] is what thread w is doing    *)
(* and frames holds the local variables of the calls in progress.          *)
(*                                                                         *)
(* Numbers.  The program computes with floats; the model computes with     *)
(* integers in fixed units, and with the real-number meaning of every      *)
(* comparison:                                                             *)
(*   viscosity   in 0.1 mm2/s        (9.3 mm2/s is 93)                     *)
(*   percentage  in 1e-6 percent     (100 % is Hundred = 10^8)             *)
(*   fraction    in 1e-7             (1.0 is One = 10^7, 1e-6 is Tol = 10) *)
(*   Walther x   in 1e-2             (x = log10(log10(v + 0.7)))           *)
(*   fraction*x  in 1e-9                                                   *)
(*   temperature in degrees Celsius                                        *)
(* A handler's result is a record [code, error, body]; code 500 stands for *)
(* an exception that leaves the handler uncaught.                          *)
(***************************************************************************)
EXTENDS Integers, Sequences, FiniteSets, TLC

VARIABLES pc, op, req, resp, threads, frames

vars == <<pc, op, req, resp, threads, frames>>

(***************************************************************************)
(* Units and literals of the source                                        *)
(***************************************************************************)
One == 10000000
Hundred == 100000000
Tol == 10
PctTol == 1
V07 == 7
None == -2000000000

Abs(a) == IF a < 0 THEN -a ELSE a

Sgn(a) == IF a < 0 THEN -1 ELSE 1

SeqSum(s) ==
  LET RECURSIVE Acc(_)
      Acc(k) == IF k = 0 THEN 0 ELSE Acc(k - 1) + s[k]
  IN Acc(Len(s))

(* p / 100.0 and f * 100.0 in the units above *)
PctToFrac(p) == p \div (Hundred \div One)

(* a fraction returned as it is, the " * 100.0" forgotten *)
FracAsPct(f) == f

FracToPct(f) == f * (Hundred \div One)

(***************************************************************************)
(* Floats that may be NaN, and calls that may raise                        *)
(***************************************************************************)
Num(v) == [kind |-> "num", val |-> v]

NaN == [kind |-> "nan", val |-> 0]

Raise == [kind |-> "raise", val |-> 0]

(***************************************************************************)
(* The Walther transform x = log10(log10(v + 0.7)) and its inverse         *)
(* v = 10**(10**x) - 0.7, tabulated: Knots[i] = <<v, x>> with v the        *)
(* viscosity (0.1 mm2/s) whose transform is x (1e-2), to the resolution of *)
(* the units.  Between knots the inverse is interpolated linearly.         *)
(***************************************************************************)
Knots ==
  << <<18, -40>>, <<25, -30>>, <<36, -20>>, <<55, -10>>, <<93, 0>>,
     <<175, 10>>, <<377, 20>>, <<982, 30>>, <<3243, 40>>, <<14523, 50>>,
     <<95728, 60>>, <<1027707, 70>> >>

(* math.log10(math.log10(v + 0.7)) raises ValueError when v + 0.7 <= 0     *)
(* (inner log) or log10(v + 0.7) <= 0, that is v + 0.7 <= 1 (outer log).   *)
ForwardRaises(v) == v + V07 <= 0 \/ v + V07 <= 10

Forward(v) == Knots[CHOOSE i \in 1..Len(Knots) : Knots[i][1] = v][2]

(* segment of the table that holds X (fraction*x units), end segments      *)
(* extended outwards                                                       *)
Segment(X) ==
  IF X < Knots[2][2] * One THEN 1
  ELSE IF X >= Knots[Len(Knots) - 1][2] * One THEN Len(Knots) - 1
  ELSE CHOOSE i \in 1..(Len(Knots) - 1) :
         Knots[i][2] * One <= X /\ X < Knots[i + 1][2] * One

Inverse(X) ==
  LET i == Segment(X)
      v0 == Knots[i][1]
      v1 == Knots[i + 1][1]
      x0 == Knots[i][2] * One
      x1 == Knots[i + 1][2] * One
      (* position within the segment in 1e-5 of an x unit, so that the    *)
      (* product below stays within the integers                          *)
      scale == One \div 100
  IN v0 + (((X - x0) \div scale) * (v1 - v0)) \div ((x1 - x0) \div scale)

(***************************************************************************)
(* compute_mixture                                                         *)
(***************************************************************************)
(* the loop over viscosities: NaN at the first v <= 0, ValueError at the   *)
(* first v in (0, 0.3], whichever comes first; otherwise the x values      *)
MixtureLoop(viscosities) ==
  LET RECURSIVE Go(_, _)
      Go(k, xs) ==
        IF k > Len(viscosities) THEN [kind |-> "num", val |-> xs]
        ELSE IF viscosities[k] <= 0 THEN NaN
        ELSE IF ForwardRaises(viscosities[k]) THEN Raise
        ELSE Go(k + 1, Append(xs, Forward(viscosities[k])))
  IN Go(1, <<>>)

compute_mixture(viscosities, fractions) ==
  IF Len(viscosities) = 0 \/ Len(fractions) = 0
       \/ Len(viscosities) # Len(fractions)
  THEN NaN
  ELSE LET l == MixtureLoop(viscosities)
       IN IF l.kind # "num" THEN l
          ELSE LET x_values == l.val
                   x_mix == SeqSum([k \in 1..Len(fractions) |->
                                       fractions[k] * x_values[k]])
               IN Num(Inverse(x_mix))

(***************************************************************************)
(* walther_params and walther_viscosity_at_temp                            *)
(* log10(T + 273.15) is tabulated in units of 1e-4 for the temperatures    *)
(* the model uses; slope is in 1e-3, intercept and x(T) in 1e-4.           *)
(***************************************************************************)
LogK(t) ==
  CASE t = -20 -> 24034 [] t = -10 -> 24202 [] t = 0 -> 24364
    [] t = 10 -> 24520 [] t = 20 -> 24671 [] t = 25 -> 24744
    [] t = 30 -> 24817 [] t = 40 -> 24958 [] t = 50 -> 25094
    [] t = 60 -> 25226 [] t = 70 -> 25355 [] t = 80 -> 25480
    [] t = 90 -> 25601 [] t = 100 -> 25719

(* math.log10(t + 273.15) raises ValueError when t + 273.15 <= 0 *)
LogKRaises(t) == t <= -274

walther_params(v1, t1, v2, t2) ==
  IF ForwardRaises(v1) \/ ForwardRaises(v2) \/ LogKRaises(t1) \/ LogKRaises(t2)
    THEN Raise
  ELSE LET x1 == Forward(v1)
           x2 == Forward(v2)
           y1 == LogK(t1)
           y2 == LogK(t2)
           slope == IF y2 - y1 = 0 THEN 0
                    ELSE ((x1 - x2) * 100000) \div (y2 - y1)
           intercept == x1 * 100 + (slope * y1) \div 1000
       IN [kind |-> "num", slope |-> slope, intercept |-> intercept]

walther_viscosity_at_temp(slope, intercept, temp_c) ==
  IF LogKRaises(temp_c) THEN Raise
  ELSE LET x == intercept - (slope * LogK(temp_c)) \div 1000
       IN Num(Inverse(x * (One \div 100)))

(***************************************************************************)
(* compute_vi_from_v40_v100.  The value of the index needs logarithms and  *)
(* real powers of its arguments; the model keeps which formula is applied  *)
(* (the low-viscosity AJ formulas, or compute_piece with the a(Y), b(Y) of *)
(* one band), which is what decides the value.  Within its own band every  *)
(* a(Y) is positive, so compute_piece's own guard never fires.             *)
(***************************************************************************)
Piece(band) == [kind |-> "num", formula |-> band]

(* the same with the first band closed on the right *)
compute_vi_closed_band(U, Y) ==
  IF U <= 0 \/ Y <= 0 THEN [kind |-> "nan", formula |-> "none"]
  ELSE IF Y < 20 THEN Piece("AJ")
  ELSE IF Y <= 40 THEN Piece("2-4")
  ELSE IF Y < 61 THEN Piece("4-6.1")
  ELSE IF Y < 72 THEN Piece("6.1-7.2")
  ELSE IF Y < 124 THEN Piece("7.2-12.4")
  ELSE IF Y < 700 THEN Piece("12.4-70")
  ELSE Piece("70-")

compute_vi_from_v40_v100(U, Y) ==
  IF U <= 0 \/ Y <= 0 THEN [kind |-> "nan", formula |-> "none"]
  ELSE IF Y < 20 THEN Piece("AJ")
  ELSE IF Y < 40 THEN Piece("2-4")
  ELSE IF Y < 61 THEN Piece("4-6.1")
  ELSE IF Y < 72 THEN Piece("6.1-7.2")
  ELSE IF Y < 124 THEN Piece("7.2-12.4")
  ELSE IF Y < 700 THEN Piece("12.4-70")
  ELSE Piece("70-")

(***************************************************************************)
(* Responses                                                               *)
(***************************************************************************)
NoBody == [none |-> TRUE]

Ok(b) == [code |-> 200, error |-> "", body |-> b]

Err(msg) == [code |-> 400, error |-> msg, body |-> NoBody]

(* an exception nobody catches: the framework answers 500 *)
Uncaught(exc) == [code |-> 500, error |-> exc, body |-> NoBody]

NoResp == [code |-> 0, error |-> "", body |-> NoBody]

(***************************************************************************)
(* POST /api/viscosity_temperature and POST /api/vi                        *)
(* A missing v1, t1, v2 or t2 is read as 0; target is None when absent.    *)
(***************************************************************************)
Temps == [k \in 1..13 |-> -20 + 10 * (k - 1)]

api_viscosity_temperature(data) ==
  LET w == walther_params(data.v1, data.t1, data.v2, data.t2)
  IN IF w.kind = "raise" THEN Uncaught("ValueError")
     ELSE LET table == [k \in 1..Len(Temps) |->
                          [temperature |-> Temps[k],
                           viscosity |-> walther_viscosity_at_temp(
                                           w.slope, w.intercept, Temps[k]).val]]
              visc_target == IF data.target = None THEN Raise
                             ELSE walther_viscosity_at_temp(
                                    w.slope, w.intercept, data.target)
          IN Ok([slope |-> w.slope, intercept |-> w.intercept, table |-> table,
                 (* the ValueError of the target temperature is caught and *)
                 (* the field left out                                     *)
                 targetViscosity |-> IF visc_target.kind = "num"
                                     THEN visc_target.val ELSE None])

api_vi(data) ==
  LET w == walther_params(data.v1, data.t1, data.v2, data.t2)
  IN IF w.kind = "raise" THEN Uncaught("ValueError")
     ELSE LET v40 == walther_viscosity_at_temp(w.slope, w.intercept, 40).val
              v100 == walther_viscosity_at_temp(w.slope, w.intercept, 100).val
              vi == compute_vi_from_v40_v100(v40, v100)
          IN Ok([v40 |-> v40, v100 |-> v100, vi |-> vi])

(***************************************************************************)
(* POST /api/mixture                                                       *)
(***************************************************************************)
api_mixture(data) ==
  LET comps == data.components
      n == Len(comps)
  IN IF n = 0 THEN Err("No components provided")
     ELSE IF \E k \in 1..n : comps[k].percent < 0
       THEN Err("Percentages must be non-negative")
     ELSE LET viscosities == [k \in 1..n |-> comps[k].viscosity]
              percents == [k \in 1..n |-> comps[k].percent]
              total == SeqSum(percents)
          IN IF Abs(total - Hundred) > PctTol
               THEN Err("Sum of percentages must equal 100")
             ELSE LET fractions == [k \in 1..n |-> PctToFrac(percents[k])]
                      mixture_visc == compute_mixture(viscosities, fractions)
                  IN IF mixture_visc.kind = "raise"
                       THEN Uncaught("ValueError")
                     ELSE Ok([viscosity |-> mixture_visc])

(***************************************************************************)
(* POST /api/mix2                                                          *)
(***************************************************************************)
(* one pass of the loop over the known components: an early return, or the *)
(* sums with the component added                                            *)
Mix2Step(comp, sum_known, x_known_sum) ==
  LET p == comp.percent
      v == comp.viscosity
  IN IF p < 0
       THEN [kind |-> "ret", sum_known |-> 0, x_known_sum |-> 0,
             resp |-> Err("Percentages must be non-negative")]
     ELSE IF v <= 0
       THEN [kind |-> "ret", sum_known |-> 0, x_known_sum |-> 0,
             resp |-> Err("Viscosities must be positive")]
     ELSE IF ForwardRaises(v)
       THEN [kind |-> "ret", sum_known |-> 0, x_known_sum |-> 0,
             resp |-> Uncaught("ValueError")]
     ELSE [kind |-> "num", sum_known |-> sum_known + PctToFrac(p),
           x_known_sum |-> x_known_sum + PctToFrac(p) * Forward(v),
           resp |-> NoResp]

(* the loop over the known components, with its early returns in order;    *)
(* otherwise sum_known (fraction) and x_known_sum (fraction*x)             *)
Mix2Loop(known_comps) ==
  LET RECURSIVE Go(_, _, _)
      Go(k, sum_known, x_known_sum) ==
        IF k > Len(known_comps)
          THEN [kind |-> "num", sum_known |-> sum_known,
                x_known_sum |-> x_known_sum, resp |-> NoResp]
        ELSE LET r == Mix2Step(known_comps[k], sum_known, x_known_sum)
             IN IF r.kind = "ret" THEN r
                ELSE Go(k + 1, r.sum_known, r.x_known_sum)
  IN Go(1, 0, 0)

(* The solved fraction p_A = pa_num / denominator is kept as that quotient *)
(* (numerator in fraction*x units, denominator in x units) and compared as *)
(* a real number.                                                          *)
(* num/den < bound, for den # 0 *)
QuotLess(num, den, bound) == num * Sgn(den) < bound * Abs(den)

(* num/den > bound, for den # 0 *)
QuotGreater(num, den, bound) == num * Sgn(den) > bound * Abs(den)

(* (num/den) * 100.0 in percentage units, rounded down *)
QuotPct(num, den) ==
  LET n == num * Sgn(den)
      d == Abs(den)
  IN FracToPct(n \div d) + (FracToPct(n % d) \div d)

(* the same with the known components' contribution left out *)
p_A_numerator_no_known(x_target, x_known_sum, p_remaining, x_B) ==
  x_target * One - p_remaining * x_B

(* the same with B taken to fill the whole, not what the known leave *)
p_A_numerator_whole_B(x_target, x_known_sum, p_remaining, x_B) ==
  x_target * One - x_known_sum - One * x_B

(* numerator of p_A = (x_target - x_known_sum - p_remaining * x_B) / denominator *)
p_A_numerator(x_target, x_known_sum, p_remaining, x_B) ==
  x_target * One - x_known_sum - p_remaining * x_B

(* "if p_A < -1e-6 or p_B < -1e-6", on the quotients *)
Infeasible(pa_num, pb_num, denominator) ==
  QuotLess(pa_num, denominator, -Tol) \/ QuotLess(pb_num, denominator, -Tol)

(* api_mix2 after the loop over the known components *)
Mix2Tail(data, sum_known, x_known_sum) ==
  LET target == data.targetViscosity
      baseA == data.baseAViscosity
      baseB == data.baseBViscosity
  IN IF sum_known >= One
       THEN Err("Sum of known percentages must be less than 100")
     ELSE IF target <= 0 \/ baseA <= 0 \/ baseB <= 0
       THEN Err("Viscosities must be positive")
     ELSE IF ForwardRaises(target) \/ ForwardRaises(baseA) \/ ForwardRaises(baseB)
       THEN Uncaught("ValueError")
     ELSE LET x_target == Forward(target)
              x_A == Forward(baseA)
              x_B == Forward(baseB)
              p_remaining == One - sum_known
              denominator == x_A - x_B
          IN IF denominator = 0
               THEN Err("Base viscosities must be different")
             ELSE LET pa_num == p_A_numerator(x_target, x_known_sum, p_remaining, x_B)
                      (* p_B = p_remaining - p_A = pb_num / denominator *)
                      pb_num == p_remaining * denominator - pa_num
                      p_A_percent == QuotPct(pa_num, denominator)
                      p_B_percent == QuotPct(pb_num, denominator)
                      (* the fractions after "if p_A < 0: p_A = 0.0" *)
                      ca_num == IF QuotLess(pa_num, denominator, 0) THEN 0 ELSE pa_num
                      cb_num == IF QuotLess(pb_num, denominator, 0) THEN 0 ELSE pb_num
                  IN IF Infeasible(pa_num, pb_num, denominator)
                       THEN Err("Impossible to obtain this viscosity with these two bases")
                     ELSE IF QuotGreater(ca_num + cb_num, denominator, p_remaining + Tol)
                       THEN Err("Impossible to obtain this viscosity with these two bases")
                     ELSE Ok([percentA |-> p_A_percent, percentB |-> p_B_percent])

api_mix2(data) ==
  LET l == Mix2Loop(data.knownComponents)
  IN IF l.kind = "ret" THEN l.resp
     ELSE Mix2Tail(data, l.sum_known, l.x_known_sum)

(***************************************************************************)
(* solve_general_mixture                                                   *)
(* Component positions are counted from 1 (the source's idx + 1), and so   *)
(* are positions in the list of variables.  A result is an error, a raised *)
(* exception, or fractions (percentages, by component position) with the   *)
(* mixture viscosity.                                                      *)
(***************************************************************************)
Fail(msg) == [kind |-> "error", error |-> msg]

Raised(exc) == [kind |-> "raise", error |-> exc]

Solution(fractions, viscosity) ==
  [kind |-> "ok", error |-> "", fractions |-> fractions, viscosity |-> viscosity]

CompMsg(idx, what) == "Component " \o ToString(idx) \o " " \o what

IsObjective(t) == t = "objectiveMin" \/ t = "objectiveMax"

Direction(t) == IF t = "objectiveMin" THEN "min" ELSE "max"

(* the position of the component among all components instead *)
ObjectiveIndexInComps(var_indices, idx) == idx

(* objective_index = len(var_indices) - 1: the position, among the         *)
(* variables, of the component just stored                                 *)
ObjectiveIndex(var_indices, idx) == Len(var_indices)

(* an objective is seen as a second one only after the mixture's *)
SecondObjectiveAfterMixture(objective_type) == objective_type = "mixture"

(* "if objective_type is not None" *)
SecondObjective(objective_type) == objective_type # "none"

(* the bounds of a range component taken as those of a free one *)
VarBoundsFree(ctype, minv, maxv) == <<0, One>>

(* lb, ub of a variable component: 0, 1 unless a range gives min, max *)
VarBounds(ctype, minv, maxv) ==
  IF ctype = "range" THEN <<PctToFrac(minv), PctToFrac(maxv)>> ELSE <<0, One>>

(* any sum of fixed fractions accepted *)
FixedSumNeverOff(total) == FALSE

(* "if abs(total - 1.0) > 1e-6" *)
FixedSumOff(total) == Abs(total - One) > Tol

ClassifyInit ==
  [fixed_fractions |-> <<>>, fixed_x_contrib |-> 0, fixed_sum |-> 0,
   var_bounds |-> <<>>, x_values |-> <<>>, var_indices |-> <<>>,
   objective_type |-> "none", objective_index |-> 0,
   objective_direction |-> "none"]

(* one pass of the loop over the components (comp at position idx): an    *)
(* early return, or the classification with the component added           *)
ClassifyStep(comp, idx, st) ==
  LET ctype == comp.type
      visc == comp.viscosity
  IN
  IF visc = None \/ visc <= 0
    THEN Fail(CompMsg(idx, "viscosity must be positive"))
  ELSE IF ForwardRaises(visc) THEN Raised("math domain error")
  ELSE
    LET x_i == Forward(visc) IN
    IF ctype = "fixed" \/ ctype = "setValue" THEN
      IF comp.value = None
        THEN Fail(CompMsg(idx, "fixed value missing"))
      ELSE
        LET p == PctToFrac(comp.value) IN
        IF p < 0 \/ p > One
          THEN Fail(CompMsg(idx, "fixed value must be between 0 and 100"))
        ELSE [kind |-> "go",
              st |-> [st EXCEPT !.fixed_sum = @ + p,
                                !.fixed_x_contrib = @ + p * x_i,
                                !.fixed_fractions = Append(@, <<idx, p>>)]]
    ELSE
      IF ctype = "range" /\ (comp.min = None \/ comp.max = None)
        THEN Fail(CompMsg(idx, "range requires min and max"))
      ELSE
        LET lb == VarBounds(ctype, comp.min, comp.max)[1]
            ub == VarBounds(ctype, comp.min, comp.max)[2]
            st1 == [st EXCEPT !.var_indices = Append(@, idx),
                              !.x_values = Append(@, x_i),
                              !.var_bounds = Append(@, <<lb, ub>>)]
        IN
        IF ctype = "range" /\ (lb < 0 \/ ub > One \/ lb > ub)
          THEN Fail(CompMsg(idx, "range is invalid"))
        ELSE IF IsObjective(ctype) THEN
          IF SecondObjective(st.objective_type)
            THEN Fail("Multiple objectives not allowed")
          ELSE [kind |-> "go",
                st |-> [st1 EXCEPT
                          !.objective_type = "component",
                          !.objective_index = ObjectiveIndex(st1.var_indices, idx),
                          !.objective_direction = Direction(ctype)]]
        ELSE [kind |-> "go", st |-> st1]

(* the loop over the components, with its early returns in order *)
Classify(comps) ==
  LET RECURSIVE Go(_, _)
      Go(idx, st) ==
        IF idx > Len(comps) THEN [kind |-> "go", st |-> st]
        ELSE LET r == ClassifyStep(comps[idx], idx, st)
             IN IF r.kind # "go" THEN r ELSE Go(idx + 1, r.st)
  IN Go(1, ClassifyInit)

(* the mixture's objective and constraint, after the components *)
MixturePass(mix_info, st) ==
  LET mtype == mix_info.type IN
  IF IsObjective(mtype) /\ SecondObjective(st.objective_type)
    THEN Fail("Multiple objectives not allowed")
  ELSE IF mtype = "setValue" /\ mix_info.value = None
    THEN Fail("Mixture set value missing")
  ELSE IF mtype = "setValue" /\ mix_info.value <= 0
    THEN Fail("Mixture viscosity must be positive")
  ELSE IF mtype = "range" /\ (mix_info.min = None \/ mix_info.max = None)
    THEN Fail("Mixture range requires min and max")
  ELSE IF mtype = "range"
          /\ (mix_info.min <= 0 \/ mix_info.max <= 0 \/ mix_info.min > mix_info.max)
    THEN Fail("Mixture range is invalid")
  ELSE [kind |-> "go",
        st |-> IF IsObjective(mtype)
               THEN [st EXCEPT !.objective_type = "mixture",
                               !.objective_direction = Direction(mtype)]
               ELSE st,
        mix_set_val |-> IF mtype = "setValue" THEN mix_info.value ELSE None,
        mix_range_min |-> IF mtype = "range" THEN mix_info.min ELSE None,
        mix_range_max |-> IF mtype = "range" THEN mix_info.max ELSE None]

(* the same with the mixture constraints left unverified *)
AllFixedUnchecked(st, mix) ==
  LET total == st.fixed_sum IN
  IF FixedSumOff(total)
    THEN Fail("Sum of fixed components must be exactly 100%")
  ELSE
    LET x_total == st.fixed_x_contrib
        v_mix == Inverse(x_total)
    IN Solution([k \in 1..Len(st.fixed_fractions) |->
                   FracToPct(st.fixed_fractions[k][2])], v_mix)

(* no variable component: the fixed fractions are the answer.  The         *)
(* viscosity tolerance of 1e-6 mm2/s is below the unit of viscosity, so    *)
(* within it means equal.                                                  *)
AllFixed(st, mix) ==
  LET total == st.fixed_sum IN
  IF FixedSumOff(total)
    THEN Fail("Sum of fixed components must be exactly 100%")
  ELSE
    LET x_total == st.fixed_x_contrib
        v_mix == Inverse(x_total)
    IN
    IF mix.mix_set_val # None /\ Abs(v_mix - mix.mix_set_val) > 0
      THEN Fail("Mixture viscosity does not match target value")
    ELSE IF mix.mix_range_min # None
            /\ (v_mix < mix.mix_range_min \/ v_mix > mix.mix_range_max)
      THEN Fail("Mixture viscosity not within specified range")
    ELSE Solution([k \in 1..Len(st.fixed_fractions) |->
                     FracToPct(st.fixed_fractions[k][2])], v_mix)

Neg(row) == [j \in 1..Len(row) |-> -row[j]]

(* the linear program handed to linprog; building it raises when a mixture *)
(* bound is outside the domain of the transform                            *)
BuildLP(st, mix) ==
  LET m == Len(st.var_indices)
      ones == [j \in 1..m |-> 1]
      zeros == [j \in 1..m |-> 0]
      row == st.x_values
      c == IF st.objective_type = "mixture"
             THEN IF st.objective_direction = "min" THEN row ELSE Neg(row)
           ELSE IF st.objective_type = "component"
             THEN [zeros EXCEPT ![st.objective_index] =
                     IF st.objective_direction = "min" THEN 1 ELSE -1]
           ELSE zeros
  IN
  IF mix.mix_set_val # None THEN
    IF ForwardRaises(mix.mix_set_val) THEN Raised("math domain error")
    ELSE [kind |-> "go", c |-> c, A_ub |-> <<>>, b_ub |-> <<>>,
          A_eq |-> <<ones, row>>,
          b_eq |-> <<One - st.fixed_sum,
                     Forward(mix.mix_set_val) * One - st.fixed_x_contrib>>,
          bounds |-> st.var_bounds]
  ELSE IF mix.mix_range_min # None THEN
    IF ForwardRaises(mix.mix_range_min) \/ ForwardRaises(mix.mix_range_max)
      THEN Raised("math domain error")
    ELSE [kind |-> "go", c |-> c,
          A_ub |-> <<Neg(row), row>>,
          b_ub |-> <<-(Forward(mix.mix_range_min) * One - st.fixed_x_contrib),
                     Forward(mix.mix_range_max) * One - st.fixed_x_contrib>>,
          A_eq |-> <<ones>>, b_eq |-> <<One - st.fixed_sum>>,
          bounds |-> st.var_bounds]
  ELSE [kind |-> "go", c |-> c, A_ub |-> <<>>, b_ub |-> <<>>,
        A_eq |-> <<ones>>, b_eq |-> <<One - st.fixed_sum>>,
        bounds |-> st.var_bounds]

(***************************************************************************)
(* scipy.optimize.linprog, by its contract: failure when no point meets    *)
(* the constraints, otherwise some point that meets them and minimises     *)
(* c.x.  Points are taken on the quarters of the whole: the requests the   *)
(* model draws have all their vertices there.                              *)
(***************************************************************************)
Dot(a, x) == SeqSum([j \in 1..Len(a) |-> a[j] * x[j]])

LPGrid == {k * (One \div 4) : k \in 0..4}

LPFeasible(A_ub, b_ub, A_eq, b_eq, bounds) ==
  {x \in [1..Len(bounds) -> LPGrid] :
     /\ \A j \in 1..Len(bounds) : bounds[j][1] <= x[j] /\ x[j] <= bounds[j][2]
     /\ \A r \in 1..Len(A_eq) : Dot(A_eq[r], x) = b_eq[r]
     /\ \A r \in 1..Len(A_ub) : Dot(A_ub[r], x) <= b_ub[r]}

linprog(c, A_ub, b_ub, A_eq, b_eq, bounds) ==
  LET F == LPFeasible(A_ub, b_ub, A_eq, b_eq, bounds) IN
  IF F = {} THEN {[success |-> FALSE, x |-> <<>>]}
  ELSE {[success |-> TRUE, x |-> x] :
          x \in {y \in F : \A z \in F : Dot(c, y) <= Dot(c, z)}}

(* floor(n * One / d) for 0 <= n, 0 < d, by long division *)
ScaledDiv(n, d) ==
  LET RECURSIVE Digits(_, _, _)
      Digits(q, r, k) ==
        IF k = 0 THEN q
        ELSE Digits(10 * q + (10 * r) \div d, (10 * r) % d, k - 1)
  IN Digits(n \div d, n % d, 7)

(* round(f * 100.0, 6): a percentage to 6 decimals, which is the unit of   *)
(* percentages                                                             *)
Round6(pct) == pct

(* fractions back in component order, checks, and the result *)
Assemble(n, st, res) ==
  LET fractions ==
        [i \in 1..n |->
           IF \E k \in 1..Len(st.fixed_fractions) : st.fixed_fractions[k][1] = i
             THEN st.fixed_fractions[
                    CHOOSE k \in 1..Len(st.fixed_fractions) :
                      st.fixed_fractions[k][1] = i][2]
           ELSE res.x[CHOOSE j \in 1..Len(st.var_indices) :
                        st.var_indices[j] = i]]
      total_sum == SeqSum(fractions)
      normalised == IF Abs(total_sum - One) > Tol
                      THEN [i \in 1..n |-> ScaledDiv(fractions[i], total_sum)]
                    ELSE fractions
      x_total == st.fixed_x_contrib + Dot(res.x, st.x_values)
      viscosity == Inverse(x_total)
  IN IF \E i \in 1..n : fractions[i] < -Tol
       THEN Fail("Solution contains negative fractions")
     ELSE Solution([i \in 1..n |-> Round6(FracToPct(normalised[i]))], viscosity)

(* solve_general_mixture after the loop over the components: the results  *)
(* it may return                                                           *)
SolveTail(data, st) ==
  LET n == Len(data.components)
      mix == MixturePass(data.mixture, st)
  IN
  IF mix.kind # "go" THEN {mix}
  (* "fixed_sum > 1 + 1e-9": 1e-9 is below the unit of fractions *)
  ELSE IF mix.st.fixed_sum > One
    THEN {Fail("Sum of fixed component fractions exceeds 100%")}
  ELSE IF Len(mix.st.var_indices) = 0 THEN {AllFixed(mix.st, mix)}
  ELSE
    LET lp == BuildLP(mix.st, mix) IN
    IF lp.kind # "go" THEN {lp}
    ELSE {IF res.success THEN Assemble(n, mix.st, res)
          ELSE Fail("No feasible solution found") :
            res \in linprog(lp.c, lp.A_ub, lp.b_ub, lp.A_eq, lp.b_eq, lp.bounds)}

(* the results solve_general_mixture may return for a request *)
solve_general_mixture(data) ==
  LET comps == data.components
      n == Len(comps)
  IN
  IF n = 0 THEN {Fail("No components supplied")}
  ELSE
    LET cl == Classify(comps) IN
    IF cl.kind # "go" THEN {cl}
    ELSE SolveTail(data, cl.st)

(***************************************************************************)
(* POST /api/solver: every exception of the solve is caught                *)
(***************************************************************************)
api_solver(result) ==
  IF result.kind = "raise" THEN Err(result.error)
  ELSE IF result.kind = "error" THEN Err(result.error)
  ELSE Ok([fractions |-> result.fractions, viscosity |-> result.viscosity])

(***************************************************************************)
(* Requests the model draws                                                *)
(***************************************************************************)
MaxBlend == 2
MaxKnown == 1

SeqsUpTo(S, n) == UNION {[1..k -> S] : k \in 0..n}

BlendComps ==
  [percent : {-1000000, 50000000, 100000000}, viscosity : {0, 2, 93, 3243}]

BlendRequests == [components : SeqsUpTo(BlendComps, MaxBlend)]

KnownComps ==
  [percent : {-1000000, 10, 200, 50000000, 100000000},
   viscosity : {0, 2, 377, 3243}]

Mix2Requests ==
  [targetViscosity : {0, 2, 93, 175, 377, 982, 3243},
   baseAViscosity : {0, 2, 93, 377, 3243},
   baseBViscosity : {0, 2, 93, 377, 3243},
   knownComponents : SeqsUpTo(KnownComps, MaxKnown)]

WaltherRequests ==
  [v1 : {0, 2, 93, 982}, t1 : {-300, 40, 100},
   v2 : {0, 2, 93, 982}, t2 : {-300, 40, 100},
   target : {None, -300, 25}]

ViArgs ==
  [u : {-5, 0, 50, 1000},
   y : {-1, 0, 1, 19, 20, 21, 39, 40, 41, 60, 61, 62, 71, 72, 73,
        123, 124, 125, 699, 700, 701}]

MaxComps == 3

SolverComps ==
  { [type |-> "fixed", viscosity |-> 93, value |-> 50000000, min |-> None, max |-> None],
    [type |-> "setValue", viscosity |-> 3243, value |-> 25000000, min |-> None, max |-> None],
    [type |-> "free", viscosity |-> 93, value |-> None, min |-> None, max |-> None],
    [type |-> "range", viscosity |-> 3243, value |-> None, min |-> 25000000, max |-> 75000000],
    [type |-> "objectiveMin", viscosity |-> 3243, value |-> None, min |-> None, max |-> None],
    [type |-> "objectiveMax", viscosity |-> 93, value |-> None, min |-> None, max |-> None],
    [type |-> "objectiveMax", viscosity |-> 0, value |-> None, min |-> None, max |-> None],
    [type |-> "fixed", viscosity |-> 2, value |-> 50000000, min |-> None, max |-> None] }

SolverMixtures ==
  { [type |-> "free", value |-> None, min |-> None, max |-> None],
    [type |-> "setValue", value |-> 377, min |-> None, max |-> None],
    [type |-> "setValue", value |-> 2, min |-> None, max |-> None],
    [type |-> "setValue", value |-> 0, min |-> None, max |-> None],
    [type |-> "range", value |-> None, min |-> 175, max |-> 982],
    [type |-> "objectiveMin", value |-> None, min |-> None, max |-> None],
    [type |-> "objectiveMax", value |-> None, min |-> None, max |-> None] }

SolverRequests ==
  [components : SeqsUpTo(SolverComps, MaxComps), mixture : SolverMixtures]

(***************************************************************************)
(* Threads of the server.  A call's local variables (the loop position and *)
(* the sums of api_mix2, the classification of solve_general_mixture) live *)
(* in the frame of the thread that runs it; a frame that is not in use     *)
(* holds the values a call starts with.                                    *)
(***************************************************************************)
NumWorkers == 2

Workers == 1..NumWorkers

IdleThread == [pc |-> "idle", op |-> "none", req |-> NoBody, resp |-> NoResp]

NoFrame == [k |-> 1, sum_known |-> 0, x_known_sum |-> 0, st |-> ClassifyInit]

(* one frame for all calls, as if the local variables were module globals *)
FrameShared(w) == 1

(* the frame a call on thread w keeps its local variables in: its own *)
FrameOf(w) == w

(***************************************************************************)
(* The state machine                                                       *)
(***************************************************************************)
Init ==
  /\ pc = "idle"
  /\ op = "none"
  /\ req = NoBody
  /\ resp = NoResp
  /\ threads = [w \in Workers |-> IdleThread]
  /\ frames = [w \in Workers |-> NoFrame]

ViscosityTemperature ==
  /\ pc = "idle"
  /\ \E data \in WaltherRequests :
       /\ req' = data
       /\ resp' = api_viscosity_temperature(data)
  /\ op' = "viscosity_temperature"
  /\ pc' = "done"
  /\ UNCHANGED <<threads, frames>>

Vi ==
  /\ pc = "idle"
  /\ \E data \in [v1 : {0, 2, 93, 982}, t1 : {-300, 40, 100},
                   v2 : {0, 2, 93, 982}, t2 : {-300, 40, 100}] :
       /\ req' = data
       /\ resp' = api_vi(data)
  /\ op' = "vi"
  /\ pc' = "done"
  /\ UNCHANGED <<threads, frames>>

(* a direct call of compute_vi_from_v40_v100(u, y) *)
ComputeVi ==
  /\ pc = "idle"
  /\ \E args \in ViArgs :
       /\ req' = args
       /\ resp' = Ok(compute_vi_from_v40_v100(args.u, args.y))
  /\ op' = "compute_vi"
  /\ pc' = "done"
  /\ UNCHANGED <<threads, frames>>

Mixture ==
  /\ pc = "idle"
  /\ \E data \in BlendRequests :
       /\ req' = data
       /\ resp' = api_mixture(data)
  /\ op' = "mixture"
  /\ pc' = "done"
  /\ UNCHANGED <<threads, frames>>

Mix2 ==
  /\ pc = "idle"
  /\ \E data \in Mix2Requests :
       /\ req' = data
       /\ resp' = api_mix2(data)
  /\ op' = "mix2"
  /\ pc' = "done"
  /\ UNCHANGED <<threads, frames>>

Solver ==
  /\ pc = "idle"
  /\ \E data \in SolverRequests :
       /\ req' = data
       /\ \E result \in solve_general_mixture(data) :
            resp' = api_solver(result)
  /\ op' = "solver"
  /\ pc' = "done"
  /\ UNCHANGED <<threads, frames>>

(* the response is sent; nothing of the request survives *)
Reply ==
  /\ pc = "done"
  /\ pc' = "idle"
  /\ op' = "none"
  /\ req' = NoBody
  /\ resp' = NoResp
  /\ UNCHANGED <<threads, frames>>

Next == ViscosityTemperature \/ Vi \/ ComputeVi \/ Mixture \/ Mix2 \/ Solver \/ Reply

Spec == Init /\ [][Next]_vars

(***************************************************************************)
(* Requests served concurrently.  The server runs each request on a thread *)
(* of its own; threads are interleaved between the passes of the handlers' *)
(* loops.  The requests drawn here are few, so that every interleaving of  *)
(* them is explored.                                                       *)
(***************************************************************************)
ConcurrentMix2Requests ==
  LET half == [percent |-> 50000000, viscosity |-> 377]
      trace == [percent |-> 200, viscosity |-> 3243]
      negative == [percent |-> -1000000, viscosity |-> 377]
  IN { [targetViscosity |-> 377, baseAViscosity |-> 93, baseBViscosity |-> 3243,
        knownComponents |-> <<>>],
       [targetViscosity |-> 377, baseAViscosity |-> 93, baseBViscosity |-> 3243,
        knownComponents |-> <<half>>],
       [targetViscosity |-> 982, baseAViscosity |-> 3243, baseBViscosity |-> 93,
        knownComponents |-> <<half, trace>>],
       [targetViscosity |-> 377, baseAViscosity |-> 93, baseBViscosity |-> 3243,
        knownComponents |-> <<half, negative>>] }

ConcurrentSolverRequests ==
  LET fixedA == [type |-> "fixed", viscosity |-> 93, value |-> 50000000,
                 min |-> None, max |-> None]
      freeA == [type |-> "free", viscosity |-> 93, value |-> None,
                min |-> None, max |-> None]
      rangeB == [type |-> "range", viscosity |-> 3243, value |-> None,
                 min |-> 25000000, max |-> 75000000]
      maxA == [type |-> "objectiveMax", viscosity |-> 93, value |-> None,
               min |-> None, max |-> None]
      minB == [type |-> "objectiveMin", viscosity |-> 3243, value |-> None,
               min |-> None, max |-> None]
      unconstrained == [type |-> "free", value |-> None, min |-> None, max |-> None]
      target == [type |-> "setValue", value |-> 377, min |-> None, max |-> None]
  IN { [components |-> <<>>, mixture |-> unconstrained],
       [components |-> <<fixedA, rangeB>>, mixture |-> unconstrained],
       [components |-> <<freeA, rangeB>>, mixture |-> target],
       [components |-> <<maxA, minB>>, mixture |-> unconstrained],
       [components |-> <<fixedA, fixedA, freeA>>, mixture |-> unconstrained] }

(* thread w returns response r: its frame is gone *)
Return(w, r) ==
  /\ threads' = [threads EXCEPT ![w].pc = "done", ![w].resp = r]
  /\ frames' = [frames EXCEPT ![FrameOf(w)] = NoFrame]

(* api_mix2 is entered: sum_known = 0.0, x_known_sum = 0.0 *)
Mix2Begin(w) ==
  /\ threads[w].pc = "idle"
  /\ \E data \in ConcurrentMix2Requests :
       threads' = [threads EXCEPT ![w] = [pc |-> "loop", op |-> "mix2",
                                          req |-> data, resp |-> NoResp]]
  /\ frames' = [frames EXCEPT ![FrameOf(w)] = NoFrame]
  /\ UNCHANGED <<pc, op, req, resp>>

(* one pass of "for comp in known_comps" *)
Mix2Iterate(w) ==
  LET f == frames[FrameOf(w)]
      known_comps == threads[w].req.knownComponents
  IN /\ threads[w].pc = "loop" /\ threads[w].op = "mix2"
     /\ f.k <= Len(known_comps)
     /\ LET r == Mix2Step(known_comps[f.k], f.sum_known, f.x_known_sum)
        IN IF r.kind = "ret" THEN Return(w, r.resp)
           ELSE /\ frames' = [frames EXCEPT ![FrameOf(w)] =
                                [f EXCEPT !.k = @ + 1,
                                          !.sum_known = r.sum_known,
                                          !.x_known_sum = r.x_known_sum]]
                /\ UNCHANGED threads
     /\ UNCHANGED <<pc, op, req, resp>>

(* the loop is over: the rest of api_mix2 *)
Mix2Return(w) ==
  LET f == frames[FrameOf(w)] IN
  /\ threads[w].pc = "loop" /\ threads[w].op = "mix2"
  /\ f.k > Len(threads[w].req.knownComponents)
  /\ Return(w, Mix2Tail(threads[w].req, f.sum_known, f.x_known_sum))
  /\ UNCHANGED <<pc, op, req, resp>>

(* api_solver calls solve_general_mixture, which starts its lists and sums *)
SolverBegin(w) ==
  /\ threads[w].pc = "idle"
  /\ \E data \in ConcurrentSolverRequests :
       IF Len(data.components) = 0
         THEN threads' = [threads EXCEPT ![w] =
                            [pc |-> "done", op |-> "solver", req |-> data,
                             resp |-> api_solver(Fail("No components supplied"))]]
       ELSE threads' = [threads EXCEPT ![w] = [pc |-> "loop", op |-> "solver",
                                               req |-> data, resp |-> NoResp]]
  /\ frames' = [frames EXCEPT ![FrameOf(w)] = NoFrame]
  /\ UNCHANGED <<pc, op, req, resp>>

(* one pass of "for idx, comp in enumerate(comps)" *)
SolverIterate(w) ==
  LET f == frames[FrameOf(w)]
      comps == threads[w].req.components
  IN /\ threads[w].pc = "loop" /\ threads[w].op = "solver"
     /\ f.k <= Len(comps)
     /\ LET r == ClassifyStep(comps[f.k], f.k, f.st)
        IN IF r.kind # "go" THEN Return(w, api_solver(r))
           ELSE /\ frames' = [frames EXCEPT ![FrameOf(w)] =
                                [f EXCEPT !.k = @ + 1, !.st = r.st]]
                /\ UNCHANGED threads
     /\ UNCHANGED <<pc, op, req, resp>>

(* the loop is over: the rest of solve_general_mixture *)
SolverReturn(w) ==
  LET f == frames[FrameOf(w)] IN
  /\ threads[w].pc = "loop" /\ threads[w].op = "solver"
  /\ f.k > Len(threads[w].req.components)
  /\ \E result \in SolveTail(threads[w].req, f.st) :
       Return(w, api_solver(result))
  /\ UNCHANGED <<pc, op, req, resp>>

(* the response of thread w is sent *)
Deliver(w) ==
  /\ threads[w].pc = "done"
  /\ threads' = [threads EXCEPT ![w] = IdleThread]
  /\ UNCHANGED <<pc, op, req, resp, frames>>

Interleaved ==
  \E w \in Workers :
    \/ Mix2Begin(w) \/ Mix2Iterate(w) \/ Mix2Return(w)
    \/ SolverBegin(w) \/ SolverIterate(w) \/ SolverReturn(w)
    \/ Deliver(w)

Concurrent == Init /\ [][Interleaved]_vars

(***************************************************************************)
(* Properties of the two-component solve                                   *)
(***************************************************************************)
Mix2Done == pc = "done" /\ op = "mix2"

InDomain(v) == v > 0 /\ ~ForwardRaises(v)

(* the request passes every input check and has distinct bases *)
Mix2Solvable ==
  /\ Mix2Done
  /\ \A k \in 1..Len(req.knownComponents) :
        req.knownComponents[k].percent >= 0
        /\ InDomain(req.knownComponents[k].viscosity)
  /\ InDomain(req.targetViscosity)
  /\ InDomain(req.baseAViscosity)
  /\ InDomain(req.baseBViscosity)
  /\ Forward(req.baseAViscosity) # Forward(req.baseBViscosity)
  /\ SeqSum([k \in 1..Len(req.knownComponents) |->
               PctToFrac(req.knownComponents[k].percent)]) < One

KnownFrac ==
  SeqSum([k \in 1..Len(req.knownComponents) |->
            PctToFrac(req.knownComponents[k].percent)])

KnownX ==
  SeqSum([k \in 1..Len(req.knownComponents) |->
            PctToFrac(req.knownComponents[k].percent)
              * Forward(req.knownComponents[k].viscosity)])

(* splits of the remaining fraction between A and B that the property is   *)
(* tried on: every quarter of the whole, and the whole remainder           *)
SplitsA == {k * (One \div 4) : k \in 0..4} \cup {One - KnownFrac}

(* the target is exactly the blend of pA of A, the rest of B, and the known *)
TargetIsBlend(pA) ==
  /\ pA >= 0
  /\ pA <= One - KnownFrac
  /\ Forward(req.targetViscosity) * One =
       pA * Forward(req.baseAViscosity)
       + (One - KnownFrac - pA) * Forward(req.baseBViscosity)
       + KnownX

(* C5: when the target is the blend of a split of the remaining fraction   *)
(* between distinct bases A and B (plus the known components), the solve   *)
(* succeeds and returns that split as percentA and percentB.               *)
C5_Mix2InvertsBlend ==
  Mix2Solvable =>
    \A pA \in SplitsA :
      TargetIsBlend(pA) =>
        /\ resp.code = 200
        /\ resp.body.percentA = FracToPct(pA)
        /\ resp.body.percentB = FracToPct(One - KnownFrac - pA)

C5_Witness ==
  /\ Mix2Solvable
  /\ Len(req.knownComponents) > 0
  /\ \E pA \in SplitsA : pA > 0 /\ pA < One - KnownFrac /\ TargetIsBlend(pA)
  /\ resp.code = 200

(* C6: whenever the solve returns percentages, neither is negative.        *)
C6_NoNegativePercent ==
  (Mix2Done /\ resp.code = 200) =>
    resp.body.percentA >= 0 /\ resp.body.percentB >= 0

(* the interval of target coordinates reachable with non-negative          *)
(* fractions of A and B (fraction*x units)                                 *)
ReachLo ==
  KnownX + (One - KnownFrac)
    * (IF Forward(req.baseAViscosity) < Forward(req.baseBViscosity)
       THEN Forward(req.baseAViscosity) ELSE Forward(req.baseBViscosity))

ReachHi ==
  KnownX + (One - KnownFrac)
    * (IF Forward(req.baseAViscosity) < Forward(req.baseBViscosity)
       THEN Forward(req.baseBViscosity) ELSE Forward(req.baseAViscosity))

BaseSpan == Abs(Forward(req.baseAViscosity) - Forward(req.baseBViscosity))

InfeasibleResp ==
  resp = Err("Impossible to obtain this viscosity with these two bases")

(* C7 as stated: a target outside the reachable interval yields the        *)
(* infeasibility error.                                                    *)
C7_OutsideIsInfeasible ==
  (Mix2Solvable
     /\ (Forward(req.targetViscosity) * One < ReachLo
          \/ Forward(req.targetViscosity) * One > ReachHi))
    => InfeasibleResp

(* C7 amended: a target outside the reachable interval by more than the    *)
(* tolerance (the fraction of A or B it needs is below -1e-6) yields the   *)
(* infeasibility error and no percentages.                                 *)
C7_FarOutsideIsInfeasible ==
  (Mix2Solvable
     /\ (Forward(req.targetViscosity) * One < ReachLo - Tol * BaseSpan
          \/ Forward(req.targetViscosity) * One > ReachHi + Tol * BaseSpan))
    => InfeasibleResp

C7_Witness ==
  /\ Mix2Solvable
  /\ Len(req.knownComponents) > 0
  /\ Forward(req.targetViscosity) * One < ReachLo - Tol * BaseSpan
  /\ Forward(req.targetViscosity) * One > ReachLo - 100 * Tol * BaseSpan
  /\ InfeasibleResp

(***************************************************************************)
(* Properties of the viscosity index                                       *)
(***************************************************************************)
(* the bands of Y = v100 as half-open intervals <<name, from, below>>,     *)
(* in viscosity units; the last one has no upper end                       *)
Bands ==
  << <<"2-4", 20, 40>>, <<"4-6.1", 40, 61>>, <<"6.1-7.2", 61, 72>>,
     <<"7.2-12.4", 72, 124>>, <<"12.4-70", 124, 700>>, <<"70-", 700, None>> >>

InBand(b, y) == b[2] <= y /\ (b[3] = None \/ y < b[3])

(* C8: for positive v40 and Y = v100 the formula applied is the AJ one iff *)
(* Y < 2, and otherwise that of the half-open band holding Y; a value on a *)
(* lower edge uses the band that starts there.                             *)
C8_BandSelection ==
  (pc = "done" /\ op = "compute_vi" /\ req.u > 0 /\ req.y > 0) =>
    /\ resp.body.kind = "num"
    /\ (resp.body.formula = "AJ") <=> (req.y < 20)
    /\ \A i \in 1..Len(Bands) :
         (resp.body.formula = Bands[i][1]) <=> InBand(Bands[i], req.y)

C8_Witness ==
  /\ pc = "done" /\ op = "compute_vi" /\ req.u > 0
  /\ req.y = 40
  /\ resp.body.formula = "4-6.1"

(***************************************************************************)
(* Properties of the error handling                                        *)
(***************************************************************************)
BadVisc(v) == v # None /\ v <= 3

BadTemp(t) == t <= -274

(* a numeric input of the request is outside the domain of the transform *)
OutOfDomain ==
  \/ /\ op \in {"viscosity_temperature", "vi"}
     /\ (BadVisc(req.v1) \/ BadVisc(req.v2) \/ BadTemp(req.t1) \/ BadTemp(req.t2))
  \/ /\ op = "mixture"
     /\ \E k \in 1..Len(req.components) : BadVisc(req.components[k].viscosity)
  \/ /\ op = "mix2"
     /\ (BadVisc(req.targetViscosity) \/ BadVisc(req.baseAViscosity)
         \/ BadVisc(req.baseBViscosity)
         \/ \E k \in 1..Len(req.knownComponents) :
              BadVisc(req.knownComponents[k].viscosity))
  \/ /\ op = "solver"
     /\ (\/ \E k \in 1..Len(req.components) : BadVisc(req.components[k].viscosity)
         \/ req.mixture.type = "setValue" /\ BadVisc(req.mixture.value))

(* C2: a request of any of the five operations with a numeric input        *)
(* outside the domain of the transform never ends in an uncaught           *)
(* exception.                                                              *)
C2_NoEscapingException ==
  (pc = "done" /\ OutOfDomain) => resp.code # 500

(***************************************************************************)
(* Properties of the general solve                                         *)
(***************************************************************************)
SolverDone == pc = "done" /\ op = "solver"

IsFixed(comp) == comp.type = "fixed" \/ comp.type = "setValue"

ObjComps == {k \in 1..Len(req.components) : IsObjective(req.components[k].type)}

ObjectiveCount ==
  Cardinality(ObjComps) + (IF IsObjective(req.mixture.type) THEN 1 ELSE 0)

MultipleResp == resp = Err("Multiple objectives not allowed")

(* the component passes the checks made on it alone *)
CompValid(comp) ==
  /\ comp.viscosity # None
  /\ comp.viscosity > 3
  /\ IsFixed(comp) =>
       comp.value # None /\ comp.value >= 0 /\ comp.value <= Hundred
  /\ comp.type = "range" =>
       /\ comp.min # None /\ comp.max # None
       /\ 0 <= comp.min /\ comp.min <= comp.max /\ comp.max <= Hundred

(* where the second objective is declared: the position of the second      *)
(* objective component, or the end of the list when it is the mixture's    *)
SecondObjectiveAt ==
  IF Cardinality(ObjComps) >= 2
    THEN CHOOSE k \in ObjComps : Cardinality({j \in ObjComps : j < k}) = 1
  ELSE Len(req.components)

(* C1 as stated: two or more objectives give the multiple-objectives       *)
(* error, one or none never do.                                            *)
C1_MultipleObjectivesError ==
  SolverDone =>
    /\ ObjectiveCount >= 2 => MultipleResp
    /\ ObjectiveCount <= 1 => ~MultipleResp

(* C1 amended: two or more objectives never give a solution, and give the  *)
(* multiple-objectives error unless a component up to the second           *)
(* declaration fails a check of its own first; one or none never give it.  *)
C1_MultipleObjectivesRejected ==
  SolverDone =>
    /\ ObjectiveCount >= 2 =>
         /\ resp.code = 400
         /\ (\A k \in 1..SecondObjectiveAt : CompValid(req.components[k]))
              => MultipleResp
    /\ ObjectiveCount <= 1 => ~MultipleResp

C1_Witness ==
  /\ SolverDone
  /\ Cardinality(ObjComps) = 2
  /\ \E k \in 1..Len(req.components) :
       IsFixed(req.components[k]) /\ k < SecondObjectiveAt
  /\ MultipleResp

(* C3: the fractions of every successful result sum to 100 % within 1e-6   *)
(* of the whole.                                                           *)
C3_FractionsSumToOne ==
  (SolverDone /\ resp.code = 200) =>
    Abs(SeqSum(resp.body.fractions) - Hundred) <= Tol * (Hundred \div One)

C3_Witness ==
  /\ SolverDone /\ resp.code = 200
  /\ \E k \in 1..Len(req.components) : IsFixed(req.components[k])
  /\ Cardinality({k \in 1..Len(req.components) : ~IsFixed(req.components[k])}) >= 2

AllFixedRequest ==
  /\ SolverDone
  /\ \A k \in 1..Len(req.components) :
       IsFixed(req.components[k]) /\ req.components[k].value # None
  /\ Len(req.components) > 0

NoMixtureConstraint == req.mixture.type \notin {"setValue", "range"}

DeclaredFractions ==
  [k \in 1..Len(req.components) |-> PctToFrac(req.components[k].value)]

(* the answer of the all-fixed case: an error when the declared fractions  *)
(* do not sum to 1, else the declared percentages and their blend          *)
AllFixedAnswer ==
  IF Abs(SeqSum(DeclaredFractions) - One) > Tol THEN resp.code = 400
  ELSE /\ resp.code = 200
       /\ \A k \in 1..Len(req.components) :
            resp.body.fractions[k] = req.components[k].value
       /\ Num(resp.body.viscosity) =
            compute_mixture([k \in 1..Len(req.components) |->
                               req.components[k].viscosity],
                            DeclaredFractions)

LPSuccess ==
  /\ SolverDone /\ resp.code = 200
  /\ \E k \in 1..Len(req.components) : ~IsFixed(req.components[k])

(* C9: on a successful result with variables every fixed component has its *)
(* declared percentage at its own position and every variable component a  *)
(* percentage within its bounds at its own position.                       *)
C9_FractionsInOrder ==
  LPSuccess =>
    \A k \in 1..Len(req.components) :
      LET comp == req.components[k]
          f == resp.body.fractions[k]
      IN IF IsFixed(comp) THEN f = comp.value
         ELSE IF comp.type = "range" THEN comp.min <= f /\ f <= comp.max
         ELSE 0 <= f /\ f <= Hundred

C9_Witness ==
  /\ LPSuccess
  /\ Len(req.components) = 3
  /\ ~IsFixed(req.components[1])
  /\ IsFixed(req.components[2])
  /\ req.components[3].type = "range"

(* fraction vectors, by component position, that meet the sum, the fixed   *)
(* values and bounds of the components, and the mixture constraint         *)
Admissible ==
  LET comps == req.components
      n == Len(comps)
      X(f) == SeqSum([k \in 1..n |-> f[k] * Forward(comps[k].viscosity)])
  IN {f \in [1..n -> LPGrid] :
        /\ SeqSum(f) = One
        /\ \A k \in 1..n :
             /\ IsFixed(comps[k]) => f[k] = PctToFrac(comps[k].value)
             /\ comps[k].type = "range" =>
                  PctToFrac(comps[k].min) <= f[k] /\ f[k] <= PctToFrac(comps[k].max)
        /\ req.mixture.type = "setValue" => X(f) = Forward(req.mixture.value) * One
        /\ req.mixture.type = "range" =>
             /\ Forward(req.mixture.min) * One <= X(f)
             /\ X(f) <= Forward(req.mixture.max) * One}

OneComponentObjective ==
  /\ SolverDone /\ resp.code = 200
  /\ Cardinality(ObjComps) = 1
  /\ ~IsObjective(req.mixture.type)

(* C10: with exactly one objective component and a feasible problem, the   *)
(* returned percentage of that component is the least (objectiveMin) or    *)
(* greatest (objectiveMax) it takes over the admissible fraction vectors.  *)
C10_ObjectiveOnDeclaringComponent ==
  OneComponentObjective =>
    LET k == CHOOSE j \in ObjComps : TRUE
        got == resp.body.fractions[k]
    IN /\ \E f \in Admissible : got = f[k] * (Hundred \div One)
       /\ \A f \in Admissible :
            IF req.components[k].type = "objectiveMin"
              THEN got <= f[k] * (Hundred \div One)
            ELSE got >= f[k] * (Hundred \div One)

C10_Witness ==
  /\ OneComponentObjective
  /\ Len(req.components) = 3
  /\ IsFixed(req.components[1])
  /\ 3 \in ObjComps
  /\ resp.body.fractions[3] > 0
  /\ resp.body.fractions[2] > 0

(* the transformed coordinate of the returned blend: the sum over all      *)
(* components of returned fraction * forward(viscosity), fraction*x units  *)
ReturnedX ==
  SeqSum([k \in 1..Len(req.components) |->
            PctToFrac(resp.body.fractions[k]) * Forward(req.components[k].viscosity)])

(* every component passes its own checks and the mixture's bounds are in   *)
(* the domain of the transform                                             *)
ConstraintsDefined ==
  /\ Len(req.components) > 0
  /\ \A k \in 1..Len(req.components) : CompValid(req.components[k])
  /\ req.mixture.type = "setValue" => InDomain(req.mixture.value)
  /\ req.mixture.type = "range" =>
       InDomain(req.mixture.min) /\ InDomain(req.mixture.max)

(* C11: a successful result meets the declared mixture constraint: with    *)
(* role setValue the transformed coordinate of the returned blend equals   *)
(* forward(target), with role range it lies between forward(min) and       *)
(* forward(max); and when no fraction vector that meets the component      *)
(* constraints meets the mixture constraint, the solve returns an error.   *)
C11_MixtureConstraintMet ==
  /\ (SolverDone /\ resp.code = 200) =>
       /\ req.mixture.type = "setValue" =>
            ReturnedX = Forward(req.mixture.value) * One
       /\ req.mixture.type = "range" =>
            /\ Forward(req.mixture.min) * One <= ReturnedX
            /\ ReturnedX <= Forward(req.mixture.max) * One
  /\ (SolverDone /\ ConstraintsDefined /\ Admissible = {}) =>
       resp.code = 400 /\ resp.body = NoBody

C11_Witness ==
  /\ LPSuccess
  /\ req.mixture.type = "setValue"
  /\ \E k \in 1..Len(req.components) :
       IsFixed(req.components[k]) /\ Forward(req.components[k].viscosity) # 0
  /\ \E k \in 1..Len(req.components) :
       req.components[k].type = "range" /\ resp.body.fractions[k] > 0

(* the all-fixed blend violates the mixture constraint and is refused *)
C11_WitnessAllFixedRefused ==
  /\ SolverDone /\ AllFixedRequest /\ ConstraintsDefined
  /\ req.mixture.type \in {"setValue", "range"}
  /\ Admissible = {}
  /\ resp.code = 400

(***************************************************************************)
(* Properties of concurrent requests                                       *)
(***************************************************************************)
(* the responses the operation gives to the payload when it is the only    *)
(* request processed                                                       *)
Alone(operation, data) ==
  IF operation = "mix2" THEN {api_mix2(data)}
  ELSE {api_solver(result) : result \in solve_general_mixture(data)}

(* C12: whatever the interleaving of the requests processed at once, the   *)
(* response of each is one it gets when processed alone, fixed by its own  *)
(* payload; and a thread that has delivered its response keeps nothing of  *)
(* the call.                                                               *)
C12_ResponseAsAlone ==
  \A w \in Workers :
    /\ threads[w].pc = "done" =>
         threads[w].resp \in Alone(threads[w].op, threads[w].req)
    /\ threads[w].pc = "idle" =>
         threads[w] = IdleThread /\ frames[FrameOf(w)] = NoFrame

(* a request has been answered with a solution while another request of    *)
(* the same operation, with another payload, is part-way through its loop  *)
C12_Witness ==
  \E v, w \in Workers :
    /\ v # w
    /\ threads[v].pc = "done" /\ threads[v].resp.code = 200
    /\ threads[w].pc = "loop" /\ frames[FrameOf(w)].k > 1
    /\ threads[v].op = "solver" /\ threads[w].op = "solver"
    /\ threads[w].req # threads[v].req

(***************************************************************************)
(* Properties of the known components' total                               *)
(***************************************************************************)
SumKnownResp == resp = Err("Sum of known percentages must be less than 100")

(* C13: whenever the known components' fractions total 1 or more the       *)
(* two-component solve fails with an input error and returns no            *)
(* percentages, whatever the target and base viscosities; when they total  *)
(* less than 1 the error of the total is never returned.                   *)
C13_SumKnownRejected ==
  Mix2Done =>
    /\ KnownFrac >= One => (resp.code = 400 /\ resp.body = NoBody)
    /\ KnownFrac < One => ~SumKnownResp

====
